---- MODULE Spec2Model ----
(***************************************************************************)
(* A model of the MIDAS file reader of midasio: the winnow parsers of      *)
(* src/src/parse.rs (bank, event and file level) and the entry point       *)
(* FileView::try_from_bytes of src/src/lib.rs.                             *)
(*                                                                         *)
(* A buffer is a sequence of bytes (0..255).  Offsets are 0-based as in    *)
(* the source, so the byte at offset i is b[i + 1].  A parser is an        *)
(* operator over (buffer, pos, end): it reads the bytes in [pos, end) and  *)
(* yields a record with the new position.  A 32-bit field is kept as the   *)
(* pair <<high 16 bits, low 16 bits>> so that no value of the field is     *)
(* lost; a 16-bit field is a number.                                       *)
(***************************************************************************)
EXTENDS Integers, Sequences, FiniteSets, TLC

VARIABLES args, bytes, edit, out

vars == <<args, bytes, edit, out>>

(***************************************************************************)
(* Program constants.                                                      *)
(***************************************************************************)
BOR_ID == 32768
BOR_ID_SWAPPED == 128
EOR_ID == 32769
MAGIC == 18765

(***************************************************************************)
(* Bounds of the model.                                                    *)
(***************************************************************************)
MaxOdb == 1
MaxEvents == 2
MaxBanks == 2
MaxData == 2

(***************************************************************************)
(* Integers of the wire format.                                            *)
(***************************************************************************)
Little == "Little"
Big == "Big"

U32(hi, lo) == <<hi, lo>>

U32FromNat(n) == <<n \div 65536, n % 65536>>

\* event_size >= 8 on a u32
U32GeEight(v) == v[1] > 0 \/ v[2] >= 8

\* event_size - 8 on a u32 that is at least 8
U32SubEight(v) == IF v[2] >= 8 THEN <<v[1], v[2] - 8>> ELSE <<v[1] - 1, v[2] + 65536 - 8>>

\* take(n) for a u32 count n: the count fits what is left of the input.
\* Every buffer of the model is shorter than 65536 bytes.
U32Fits(v, pos, end) == v[1] = 0 /\ v[2] <= end - pos

next_multiple_of(n, m) == ((n + m - 1) \div m) * m

(***************************************************************************)
(* winnow::binary::{le_u16, u16, u32} over the bytes [pos, end).           *)
(***************************************************************************)
le_u16(b, pos, end) ==
  IF pos + 2 <= end
  THEN [ok |-> TRUE, pos |-> pos + 2, val |-> b[pos + 1] + 256 * b[pos + 2]]
  ELSE [ok |-> FALSE, pos |-> pos, val |-> 0]

u16(e, b, pos, end) ==
  IF pos + 2 <= end
  THEN [ok |-> TRUE, pos |-> pos + 2,
        val |-> IF e = Little THEN b[pos + 1] + 256 * b[pos + 2]
                              ELSE 256 * b[pos + 1] + b[pos + 2]]
  ELSE [ok |-> FALSE, pos |-> pos, val |-> 0]

u32(e, b, pos, end) ==
  IF pos + 4 <= end
  THEN [ok |-> TRUE, pos |-> pos + 4,
        val |-> IF e = Little
                THEN <<b[pos + 3] + 256 * b[pos + 4], b[pos + 1] + 256 * b[pos + 2]>>
                ELSE <<256 * b[pos + 1] + b[pos + 2], 256 * b[pos + 3] + b[pos + 4]>>]
  ELSE [ok |-> FALSE, pos |-> pos, val |-> <<0, 0>>]

(***************************************************************************)
(* DataType: conversion from the wire code, and the size table.            *)
(***************************************************************************)
NoType == "NoType"

DataTypeTryFrom(num) ==
  CASE num = 1 -> "U8"
    [] num = 2 -> "I8"
    [] num = 3 -> "U8"
    [] num = 4 -> "U16"
    [] num = 5 -> "I16"
    [] num = 6 -> "U32"
    [] num = 7 -> "I32"
    [] num = 8 -> "Bool"
    [] num = 9 -> "F32"
    [] num = 10 -> "F64"
    [] num = 11 -> "U32"
    [] num = 12 -> "Str"
    [] num = 13 -> "Array"
    [] num = 14 -> "Struct"
    [] num = 15 -> "Str"
    [] num = 16 -> "Str"
    [] num = 17 -> "I64"
    [] num = 18 -> "U64"
    [] OTHER -> NoType

\* variant: only the low 16 bits of a u32 code are looked at
DataTypeTryFromU32Low(v) == DataTypeTryFrom(v[2])

\* the u32 instance of the conversion
DataTypeTryFromU32(v) == IF v[1] = 0 THEN DataTypeTryFrom(v[2]) ELSE NoType

\* variant: the boolean is one byte
DataTypeSizeBoolByte(t) ==
  CASE t \in {"U8", "I8", "Bool"} -> <<1>>
    [] t \in {"U16", "I16"} -> <<2>>
    [] t \in {"U32", "I32", "F32"} -> <<4>>
    [] t \in {"F64", "I64", "U64"} -> <<8>>
    [] OTHER -> <<>>

\* Option<usize>: <<>> is None, <<n>> is Some(n)
DataTypeSize(t) ==
  CASE t \in {"U8", "I8"} -> <<1>>
    [] t \in {"U16", "I16"} -> <<2>>
    [] t \in {"U32", "I32", "Bool", "F32"} -> <<4>>
    [] t \in {"F64", "I64", "U64"} -> <<8>>
    [] OTHER -> <<>>

unwrap_or(opt, d) == IF opt = <<>> THEN d ELSE opt[1]

(***************************************************************************)
(* Bank parsers.  A BankView is [name, data_type, data], data being the    *)
(* borrowed range [start, len] of the buffer; "at" records the offset the  *)
(* parser was applied at.  A failure carries the field that failed in      *)
(* "stage" and the position the input was left at in "pos".                *)
(***************************************************************************)
NoBank == [at |-> 0, name |-> <<>>, data_type |-> NoType, data |-> [start |-> 0, len |-> 0]]

BankFail(stage, pos) == [ok |-> FALSE, pos |-> pos, stage |-> stage, val |-> NoBank]

\* variant: the length of the data is not verified against the type
BankDataUnverified(b, at, name, t, len, lenpos, datapos, end) ==
  IF ~(datapos + len <= end) THEN BankFail("data", datapos)
  ELSE IF ~(datapos + next_multiple_of(len, 8) <= end) THEN BankFail("padding", datapos + len)
  ELSE [ok |-> TRUE, pos |-> datapos + next_multiple_of(len, 8), stage |-> "",
        val |-> [at |-> at, name |-> name, data_type |-> t,
                 data |-> [start |-> datapos, len |-> len]]]

\* variant: the padding bytes must be zero
BankDataZeroPadding(b, at, name, t, len, lenpos, datapos, end) ==
  IF ~(datapos + len <= end) THEN BankFail("data", datapos)
  ELSE IF len % unwrap_or(DataTypeSize(t), 1) # 0 THEN BankFail("data", lenpos)
  ELSE IF ~(datapos + next_multiple_of(len, 8) <= end) THEN BankFail("padding", datapos + len)
  ELSE IF \E i \in (datapos + len + 1)..(datapos + next_multiple_of(len, 8)) : b[i] # 0
       THEN BankFail("padding", datapos + len)
  ELSE [ok |-> TRUE, pos |-> datapos + next_multiple_of(len, 8), stage |-> "",
        val |-> [at |-> at, name |-> name, data_type |-> t,
                 data |-> [start |-> datapos, len |-> len]]]

\* variant: the padding is left to the caller
BankDataUnpadded(b, at, name, t, len, lenpos, datapos, end) ==
  IF ~(datapos + len <= end) THEN BankFail("data", datapos)
  ELSE IF len % unwrap_or(DataTypeSize(t), 1) # 0 THEN BankFail("data", lenpos)
  ELSE [ok |-> TRUE, pos |-> datapos + len, stage |-> "",
        val |-> [at |-> at, name |-> name, data_type |-> t,
                 data |-> [start |-> datapos, len |-> len]]]

\* the tail shared by the three layouts once name, type and size are read:
\* take the data, verify its length against the type, take the padding
BankData(b, at, name, t, len, lenpos, datapos, end) ==
  IF ~(datapos + len <= end) THEN BankFail("data", datapos)
  ELSE IF len % unwrap_or(DataTypeSize(t), 1) # 0 THEN BankFail("data", lenpos)
  ELSE IF ~(datapos + next_multiple_of(len, 8) <= end) THEN BankFail("padding", datapos + len)
  ELSE [ok |-> TRUE, pos |-> datapos + next_multiple_of(len, 8), stage |-> "",
        val |-> [at |-> at, name |-> name, data_type |-> t,
                 data |-> [start |-> datapos, len |-> len]]]

bank_16_view(e, b, pos, end) ==
  LET name == <<b[pos + 1], b[pos + 2], b[pos + 3], b[pos + 4]>>
      ty == u16(e, b, pos + 4, end)
      t == DataTypeTryFrom(ty.val)
      sz == u16(e, b, pos + 6, end)
  IN IF ~(pos + 4 <= end) THEN BankFail("name", pos)
     ELSE IF ~ty.ok \/ t = NoType THEN BankFail("data_type", pos + 4)
     ELSE IF ~sz.ok THEN BankFail("data", pos + 6)
     ELSE BankData(b, pos, name, t, sz.val, pos + 6, pos + 8, end)

bank_32_view(e, b, pos, end) ==
  LET name == <<b[pos + 1], b[pos + 2], b[pos + 3], b[pos + 4]>>
      ty == u32(e, b, pos + 4, end)
      t == DataTypeTryFromU32(ty.val)
      sz == u32(e, b, pos + 8, end)
  IN IF ~(pos + 4 <= end) THEN BankFail("name", pos)
     ELSE IF ~ty.ok \/ t = NoType THEN BankFail("data_type", pos + 4)
     ELSE IF ~sz.ok THEN BankFail("data", pos + 8)
     ELSE IF ~U32Fits(sz.val, pos + 12, end) THEN BankFail("data", pos + 12)
     ELSE BankData(b, pos, name, t, sz.val[2], pos + 8, pos + 12, end)

\* variant: the four reserved bytes after the size are not skipped
bank_32a_view_no_reserved(e, b, pos, end) ==
  LET name == <<b[pos + 1], b[pos + 2], b[pos + 3], b[pos + 4]>>
      ty == u32(e, b, pos + 4, end)
      t == DataTypeTryFromU32(ty.val)
      sz == u32(e, b, pos + 8, end)
  IN IF ~(pos + 4 <= end) THEN BankFail("name", pos)
     ELSE IF ~ty.ok \/ t = NoType THEN BankFail("data_type", pos + 4)
     ELSE IF ~sz.ok THEN BankFail("data", pos + 8)
     ELSE IF ~U32Fits(sz.val, pos + 12, end) THEN BankFail("data", pos + 12)
     ELSE BankData(b, pos, name, t, sz.val[2], pos + 8, pos + 12, end)

bank_32a_view(e, b, pos, end) ==
  LET name == <<b[pos + 1], b[pos + 2], b[pos + 3], b[pos + 4]>>
      ty == u32(e, b, pos + 4, end)
      t == DataTypeTryFromU32(ty.val)
      sz == u32(e, b, pos + 8, end)
  IN IF ~(pos + 4 <= end) THEN BankFail("name", pos)
     ELSE IF ~ty.ok \/ t = NoType THEN BankFail("data_type", pos + 4)
     ELSE IF ~sz.ok THEN BankFail("data", pos + 8)
     \* terminated(u32, take(4)): the four reserved bytes are taken unread
     ELSE IF ~(pos + 16 <= end) THEN BankFail("data", pos + 12)
     ELSE IF ~U32Fits(sz.val, pos + 16, end) THEN BankFail("data", pos + 16)
     ELSE BankData(b, pos, name, t, sz.val[2], pos + 8, pos + 16, end)

\* the bank parser the event's flags select
BankParser(layout, e, b, pos, end) ==
  CASE layout = "B16" -> bank_16_view(e, b, pos, end)
    [] layout = "B32" -> bank_32_view(e, b, pos, end)
    [] layout = "B32A" -> bank_32a_view(e, b, pos, end)

RECURSIVE repeat_till(_, _, _, _, _, _)

\* variant: a failing bank ends the loop and the banks before it are the
\* result
repeat_till_bank_partial(r, layout, e, b, end, acc) ==
  IF r.ok THEN repeat_till(layout, e, b, r.pos, end, Append(acc, r.val))
  ELSE [ok |-> TRUE, pos |-> end, val |-> acc]

\* one turn of repeat_till, given what the bank parser returned: the bank is
\* accumulated and the loop goes on, or the failure is the loop's
repeat_till_bank(r, layout, e, b, end, acc) ==
  IF r.ok THEN repeat_till(layout, e, b, r.pos, end, Append(acc, r.val))
  ELSE [ok |-> FALSE, pos |-> r.pos, val |-> acc]

\* variant: once a bank has been taken, what is left of the region is
\* accepted as it is
repeat_till_lenient(layout, e, b, pos, end, acc) ==
  IF pos = end \/ acc # <<>> THEN [ok |-> TRUE, pos |-> end, val |-> acc]
  ELSE repeat_till_bank(BankParser(layout, e, b, pos, end), layout, e, b, end, acc)

\* repeat_till(0.., bank, eof) over the region [pos, end): eof is tried
\* first, then one more bank; a failing bank fails the whole.
repeat_till(layout, e, b, pos, end, acc) ==
  IF pos = end THEN [ok |-> TRUE, pos |-> pos, val |-> acc]
  ELSE repeat_till_bank(BankParser(layout, e, b, pos, end), layout, e, b, end, acc)

(***************************************************************************)
(* Event parser.                                                           *)
(***************************************************************************)
NoEvent == [at |-> 0, id |-> 0, trigger_mask |-> 0, serial_number |-> <<0, 0>>,
            timestamp |-> <<0, 0>>, bank_views |-> <<>>]

EventFail(stage, pos) == [ok |-> FALSE, pos |-> pos, stage |-> stage, val |-> NoEvent]

\* variant: a flags value that is not known selects the 16-bit layout
FlagsLayoutDefault(flags) ==
  CASE flags = <<0, 1>> -> "B16"
    [] flags = <<0, 17>> -> "B32"
    [] flags = <<0, 49>> -> "B32A"
    [] OTHER -> "B16"

\* dispatch! on the flags value
FlagsLayout(flags) ==
  CASE flags = <<0, 1>> -> "B16"
    [] flags = <<0, 17>> -> "B32"
    [] flags = <<0, 49>> -> "B32A"
    [] OTHER -> "fail"

\* variant: an event_size of at least 4 passes
VerifyEventSizeFour(event_size) == event_size[1] > 0 \/ event_size[2] >= 4

\* variant: an event_size of 8, that of an event with no bank, does not pass
VerifyEventSizeAboveEight(event_size) == event_size[1] > 0 \/ event_size[2] > 8

\* .verify(|&event_size| event_size >= 8)
VerifyEventSize(event_size) == U32GeEight(event_size)

\* variant: banks_size may be anything up to event_size - 8
VerifyBanksSizeAtMost(banks_size, event_size) ==
  LET m == U32SubEight(event_size)
  IN banks_size[1] < m[1] \/ (banks_size[1] = m[1] /\ banks_size[2] <= m[2])

\* .verify(move |&banks_size| banks_size == event_size - 8)
VerifyBanksSize(banks_size, event_size) == banks_size = U32SubEight(event_size)

\* the end of event_view, given what the parser of the banks returned over
\* the banks_size bytes that end at "to"
event_view_banks(banks, at, id, trigger_mask, serial_number, timestamp, to) ==
  IF ~banks.ok THEN EventFail("banks", to)
  ELSE [ok |-> TRUE, pos |-> to, stage |-> "",
        val |-> [at |-> at, id |-> id, trigger_mask |-> trigger_mask,
                 serial_number |-> serial_number, timestamp |-> timestamp,
                 bank_views |-> banks.val]]

event_view(e, b, pos, end) ==
  LET id == u16(e, b, pos, end)
      trigger_mask == u16(e, b, pos + 2, end)
      serial_number == u32(e, b, pos + 4, end)
      timestamp == u32(e, b, pos + 8, end)
      event_size == u32(e, b, pos + 12, end)
      banks_size == u32(e, b, pos + 16, end)
      flags == u32(e, b, pos + 20, end)
  IN IF ~id.ok THEN EventFail("id", pos)
     ELSE IF ~trigger_mask.ok THEN EventFail("trigger_mask", pos + 2)
     ELSE IF ~serial_number.ok THEN EventFail("serial_number", pos + 4)
     ELSE IF ~timestamp.ok THEN EventFail("timestamp", pos + 8)
     ELSE IF ~event_size.ok \/ ~VerifyEventSize(event_size.val) THEN EventFail("event_size", pos + 12)
     ELSE IF ~banks_size.ok \/ ~VerifyBanksSize(banks_size.val, event_size.val)
          THEN EventFail("banks_size", pos + 16)
     ELSE IF ~flags.ok THEN EventFail("flags", pos + 20)
     ELSE IF FlagsLayout(flags.val) = "fail" THEN EventFail("flags", pos + 24)
     \* length_and_then: take banks_size bytes, then parse them to their end
     ELSE IF ~U32Fits(banks_size.val, pos + 24, end) THEN EventFail("banks", pos + 24)
     ELSE event_view_banks(
            repeat_till(FlagsLayout(flags.val), e, b, pos + 24, pos + 24 + banks_size.val[2], <<>>),
            pos, id.val, trigger_mask.val, serial_number.val, timestamp.val,
            pos + 24 + banks_size.val[2])

RECURSIVE repeat_events(_, _, _, _, _)

\* one turn of repeat(0.., event_view), given what event_view returned at
\* pos: the event is accumulated and the loop goes on, or the loop ends
\* with the input put back at pos.  "stop" is the stage at which that last
\* attempt failed.
repeat_events_event(r, e, b, pos, end, acc) ==
  IF r.ok THEN repeat_events(e, b, r.pos, end, Append(acc, r.val))
  ELSE [pos |-> pos, val |-> acc, stop |-> r.stage]

\* variant: the events are taken until the next 16 bits are the end-of-run
\* marker, which is never tried as an event
repeat_events_to_marker(e, b, pos, end, acc) ==
  IF u16(e, b, pos, end) = [ok |-> TRUE, pos |-> pos + 2, val |-> EOR_ID]
  THEN [pos |-> pos, val |-> acc, stop |-> "id"]
  ELSE repeat_events_event(event_view(e, b, pos, end), e, b, pos, end, acc)

\* repeat(0.., event_view): events are taken until event_view fails
repeat_events(e, b, pos, end, acc) ==
  repeat_events_event(event_view(e, b, pos, end), e, b, pos, end, acc)

(***************************************************************************)
(* File parser.                                                            *)
(***************************************************************************)
NoEndianness == "NoEndianness"

\* variant: the first 16 bits are read big-endian
endianness_read_be(b, pos, end) ==
  LET id == u16(Big, b, pos, end)
  IN IF ~id.ok THEN [ok |-> FALSE, pos |-> pos, val |-> NoEndianness]
     ELSE IF id.val = BOR_ID THEN [ok |-> TRUE, pos |-> id.pos, val |-> Little]
     ELSE IF id.val = BOR_ID_SWAPPED THEN [ok |-> TRUE, pos |-> id.pos, val |-> Big]
     ELSE [ok |-> FALSE, pos |-> id.pos, val |-> NoEndianness]

\* dispatch! on the first 16 bits, read little-endian
endianness(b, pos, end) ==
  LET id == le_u16(b, pos, end)
  IN IF ~id.ok THEN [ok |-> FALSE, pos |-> pos, val |-> NoEndianness]
     ELSE IF id.val = BOR_ID THEN [ok |-> TRUE, pos |-> id.pos, val |-> Little]
     ELSE IF id.val = BOR_ID_SWAPPED THEN [ok |-> TRUE, pos |-> id.pos, val |-> Big]
     ELSE [ok |-> FALSE, pos |-> id.pos, val |-> NoEndianness]

NoRange == [start |-> 0, len |-> 0]

NoFile == [run_number |-> <<0, 0>>, initial_timestamp |-> <<0, 0>>, initial_odb |-> NoRange,
           event_views |-> <<>>, final_timestamp |-> <<0, 0>>, final_odb |-> NoRange]

\* A failure of file_view: the label of the field that failed (its
\* StrContext::Label), the position the input was left at, the byte order
\* found, and what repeat(0.., event_view) had done by then: the events
\* taken, where it stopped and the stage its last attempt failed at.
FileFail(label, pos, e, evs) ==
  [ok |-> FALSE, pos |-> pos, label |-> label, endianness |-> e, val |-> NoFile,
   event_views |-> evs.val, events_end |-> evs.pos, stop |-> evs.stop]

NoEvents == [pos |-> 0, val |-> <<>>, stop |-> ""]

\* variant: when fewer bytes are left than the length says, what is left
\* is taken
length_take_lenient(e, b, pos, end) ==
  LET n == u32(e, b, pos, end)
  IN IF ~n.ok THEN [ok |-> FALSE, pos |-> pos, val |-> NoRange]
     ELSE IF ~U32Fits(n.val, pos + 4, end)
          THEN [ok |-> TRUE, pos |-> end, val |-> [start |-> pos + 4, len |-> end - (pos + 4)]]
     ELSE [ok |-> TRUE, pos |-> pos + 4 + n.val[2],
           val |-> [start |-> pos + 4, len |-> n.val[2]]]

\* length_take(u32(endianness)): a 32-bit length, then that many bytes
length_take(e, b, pos, end) ==
  LET n == u32(e, b, pos, end)
  IN IF ~n.ok THEN [ok |-> FALSE, pos |-> pos, val |-> NoRange]
     ELSE IF ~U32Fits(n.val, pos + 4, end) THEN [ok |-> FALSE, pos |-> pos + 4, val |-> NoRange]
     ELSE [ok |-> TRUE, pos |-> pos + 4 + n.val[2],
           val |-> [start |-> pos + 4, len |-> n.val[2]]]

\* variant: only the low byte of the magic is compared
VerifyMagicLowByte(magic) == magic % 256 = MAGIC % 256

\* .verify(|&magic| magic == MAGIC)
VerifyMagic(magic) == magic = MAGIC

\* .verify(|&eor_id| eor_id == EOR_ID)
VerifyEorId(eor_id) == eor_id = EOR_ID

\* variant: the closing run number is read and never compared
VerifyRunNumberSkipped(n, run_number) == TRUE

\* .verify(|&n| n == run_number)
VerifyRunNumber(n, run_number) == n = run_number

\* the closing fields of file_view, from the end-of-run id on, given the
\* byte order, the opening fields and what repeat(0.., event_view) returned
file_view_closing(evs, e, b, end, run_number, initial_timestamp, initial_odb) ==
  LET eor_id == u16(e, b, evs.pos, end)
      magic == u16(e, b, evs.pos + 2, end)
      n == u32(e, b, evs.pos + 4, end)
      final_timestamp == u32(e, b, evs.pos + 8, end)
      final_odb == length_take(e, b, evs.pos + 12, end)
  IN IF ~eor_id.ok \/ ~VerifyEorId(eor_id.val) THEN FileFail("end-of-run id", evs.pos, e, evs)
     ELSE IF ~magic.ok \/ ~VerifyMagic(magic.val)
          THEN FileFail("final magic marker", evs.pos + 2, e, evs)
     ELSE IF ~n.ok \/ ~VerifyRunNumber(n.val, run_number)
          THEN FileFail("final run number", evs.pos + 4, e, evs)
     ELSE IF ~final_timestamp.ok THEN FileFail("final unix timestamp", evs.pos + 8, e, evs)
     ELSE IF ~final_odb.ok THEN FileFail("final odb dump", final_odb.pos, e, evs)
     ELSE [ok |-> TRUE, pos |-> final_odb.pos, label |-> "", endianness |-> e,
           val |-> [run_number |-> run_number,
                    initial_timestamp |-> initial_timestamp,
                    initial_odb |-> initial_odb,
                    event_views |-> evs.val,
                    final_timestamp |-> final_timestamp.val,
                    final_odb |-> final_odb.val],
           event_views |-> evs.val, events_end |-> evs.pos, stop |-> evs.stop]

\* the fields of file_view in the byte order found, given what endianness
\* returned
file_view_fields(en, b, pos, end) ==
  LET magic == u16(en.val, b, pos + 2, end)
      run_number == u32(en.val, b, pos + 4, end)
      initial_timestamp == u32(en.val, b, pos + 8, end)
      initial_odb == length_take(en.val, b, pos + 12, end)
  IN IF ~en.ok THEN FileFail("begin-of-run id", en.pos, en.val, NoEvents)
     ELSE IF ~magic.ok \/ ~VerifyMagic(magic.val)
          THEN FileFail("initial magic marker", pos + 2, en.val, NoEvents)
     ELSE IF ~run_number.ok THEN FileFail("initial run number", pos + 4, en.val, NoEvents)
     ELSE IF ~initial_timestamp.ok
          THEN FileFail("initial unix timestamp", pos + 8, en.val, NoEvents)
     ELSE IF ~initial_odb.ok
          THEN FileFail("initial odb dump", initial_odb.pos, en.val, NoEvents)
     ELSE file_view_closing(repeat_events(en.val, b, initial_odb.pos, end, <<>>),
                            en.val, b, end, run_number.val, initial_timestamp.val,
                            initial_odb.val)

\* variant: a metadata blob is text, and a zero byte in it is an error
file_view_odb_text(b, pos, end) ==
  LET r == file_view_fields(endianness(b, pos, end), b, pos, end)
      Zero(range) == \E i \in (range.start + 1)..(range.start + range.len) : b[i] = 0
  IN IF r.ok /\ Zero(r.val.initial_odb)
     THEN FileFail("initial odb dump", r.val.initial_odb.start, r.endianness, NoEvents)
     ELSE IF r.ok /\ Zero(r.val.final_odb)
     THEN FileFail("final odb dump", r.val.final_odb.start, r.endianness, NoEvents)
     ELSE r

file_view(b, pos, end) == file_view_fields(endianness(b, pos, end), b, pos, end)

\* Parser::parse: the parser, then eof.  Bytes left over are an error that
\* carries no label, at the offset where they begin.
TrailingLabel == "eof"

\* the end of Parser::parse, given what the parser returned: eof
parse_eof(r, b) ==
  IF r.ok /\ r.pos # Len(b)
  THEN [r EXCEPT !.ok = FALSE, !.label = TrailingLabel, !.val = NoFile]
  ELSE r

\* variant: bytes left over after the file are accepted
try_from_bytes_prefix(b) == file_view(b, 0, Len(b))

try_from_bytes(b) == parse_eof(file_view(b, 0, Len(b)), b)

(***************************************************************************)
(* The encoders the tests build their inputs with.                         *)
(***************************************************************************)
to_bytes16(e, n) == IF e = Little THEN <<n % 256, n \div 256>> ELSE <<n \div 256, n % 256>>

to_bytes32(e, v) ==
  IF e = Little THEN to_bytes16(e, v[2]) \o to_bytes16(e, v[1])
                ELSE to_bytes16(e, v[1]) \o to_bytes16(e, v[2])

Fill(n, x) == [i \in 1..n |-> x]

RECURSIVE Repeat(_, _)
Repeat(s, n) == IF n = 0 THEN <<>> ELSE s \o Repeat(s, n - 1)

bank_16(e, name, data_type, data) ==
  name \o to_bytes16(e, data_type) \o to_bytes16(e, Len(data)) \o data
       \o Fill(next_multiple_of(Len(data), 8) - Len(data), 0)

bank_32(e, name, data_type, data) ==
  name \o to_bytes32(e, U32FromNat(data_type)) \o to_bytes32(e, U32FromNat(Len(data))) \o data
       \o Fill(next_multiple_of(Len(data), 8) - Len(data), 0)

bank_32a(e, name, data_type, data) ==
  name \o to_bytes32(e, U32FromNat(data_type)) \o to_bytes32(e, U32FromNat(Len(data)))
       \o Fill(4, 0) \o data \o Fill(next_multiple_of(Len(data), 8) - Len(data), 0)

event_bytes(e, id, trigger_mask, serial_number, timestamp, flags, banks) ==
  to_bytes16(e, id) \o to_bytes16(e, trigger_mask) \o to_bytes32(e, serial_number)
    \o to_bytes32(e, timestamp) \o to_bytes32(e, U32FromNat(Len(banks) + 8))
    \o to_bytes32(e, U32FromNat(Len(banks))) \o to_bytes32(e, U32FromNat(flags)) \o banks

file_bytes(e, run_number, initial_timestamp, initial_odb, events, final_timestamp, final_odb) ==
  (IF e = Little THEN to_bytes16(Little, BOR_ID) ELSE to_bytes16(Big, BOR_ID))
    \o to_bytes16(e, MAGIC) \o to_bytes32(e, run_number) \o to_bytes32(e, initial_timestamp)
    \o to_bytes32(e, U32FromNat(Len(initial_odb))) \o initial_odb \o events
    \o to_bytes16(e, EOR_ID) \o to_bytes16(e, MAGIC) \o to_bytes32(e, run_number)
    \o to_bytes32(e, final_timestamp) \o to_bytes32(e, U32FromNat(Len(final_odb))) \o final_odb

(***************************************************************************)
(* The inputs: the files the encoders build from a small set of            *)
(* arguments.  A file has "events" events, each with "banks" banks of the  *)
(* layout "flags" selects, each bank with "data" bytes of type "data_type"; *)
(* both metadata blobs have "odb" bytes.                                   *)
(***************************************************************************)
Flags == {1, 17, 49}

TypeCodes == {1, 4}

Args ==
  {a \in [endianness : {Little, Big}, odb : {0, MaxOdb}, events : {0, 1, MaxEvents},
          flags : Flags, banks : {0, MaxBanks}, data_type : TypeCodes, data : 0..MaxData] :
     /\ a.data % unwrap_or(DataTypeSize(DataTypeTryFrom(a.data_type)), 1) = 0
     /\ a.events = 0 => a.flags = 1 /\ a.banks = 0
     /\ a.banks = 0 => a.data_type = 1 /\ a.data = 0}

BankOf(a) ==
  LET name == Fill(4, 65)
      data == Fill(a.data, 255)
  IN CASE a.flags = 1 -> bank_16(a.endianness, name, a.data_type, data)
       [] a.flags = 17 -> bank_32(a.endianness, name, a.data_type, data)
       [] a.flags = 49 -> bank_32a(a.endianness, name, a.data_type, data)

EventOf(a) ==
  event_bytes(a.endianness, 1, 2, <<0, 3>>, <<0, 4>>, a.flags, Repeat(BankOf(a), a.banks))

FileOf(a) ==
  file_bytes(a.endianness, <<0, 1>>, <<0, 2>>, Fill(a.odb, 105),
             Repeat(EventOf(a), a.events), <<0, 3>>, Fill(a.odb, 102))

(***************************************************************************)
(* The state: the arguments the file was built from, the buffer, the one   *)
(* change made to it since, and the result of decoding it (<<>> until it   *)
(* is decoded).                                                            *)
(***************************************************************************)
EditBytes == {0, 1, 17, 49, 128}

NoEdit == [kind |-> "none", at |-> 0]

Init ==
  /\ args \in Args
  /\ bytes = FileOf(args)
  /\ edit = NoEdit
  /\ out = <<>>

\* file[i] = v, as the tests overwrite a field of a valid file
SetByte ==
  /\ out = <<>> /\ edit = NoEdit
  /\ \E i \in 1..Len(bytes), v \in EditBytes :
       /\ bytes[i] # v
       /\ bytes' = [bytes EXCEPT ![i] = v]
       /\ edit' = [kind |-> "set", at |-> i - 1]
  /\ UNCHANGED <<args, out>>

\* file.push(v)
Push ==
  /\ out = <<>> /\ edit = NoEdit
  /\ \E v \in EditBytes :
       /\ bytes' = Append(bytes, v)
       /\ edit' = [kind |-> "push", at |-> Len(bytes)]
  /\ UNCHANGED <<args, out>>

\* the first n bytes of the file
Truncate ==
  /\ out = <<>> /\ edit = NoEdit
  /\ \E n \in 0..(Len(bytes) - 1) :
       /\ bytes' = SubSeq(bytes, 1, n)
       /\ edit' = [kind |-> "truncate", at |-> n]
  /\ UNCHANGED <<args, out>>

\* FileView::try_from_bytes(&file)
Decode ==
  /\ out = <<>>
  /\ out' = <<try_from_bytes(bytes)>>
  /\ UNCHANGED <<args, bytes, edit>>

Next == SetByte \/ Push \/ Truncate \/ Decode

Spec == Init /\ [][Next]_vars

(***************************************************************************)
(* The bank parsers on their own.  A bank is built by the encoder of its   *)
(* layout from a name, a type code and a payload, and one of the bank      *)
(* parsers is applied at offset 0 of the buffer; so are the conversion of  *)
(* the type code, the size table and the padding of a bank view.           *)
(***************************************************************************)
MaxCode == 19

MaxPayload == 8

BANK_DATA_ALIGNMENT == 8

\* variant: the remainder is not tested for zero
required_padding_unguarded(bank) == BANK_DATA_ALIGNMENT - (bank.data.len % BANK_DATA_ALIGNMENT)

\* BankView::required_padding
required_padding(bank) ==
  LET remainder == bank.data.len % BANK_DATA_ALIGNMENT
  IN IF remainder = 0 THEN 0 ELSE BANK_DATA_ALIGNMENT - remainder

\* "A0z9", and "A-BC" whose second byte is no letter and no digit
BankNames == {<<65, 48, 122, 57>>, <<65, 45, 66, 67>>}

\* the payload of n bytes: 201, 202, ...
Payload(n) == [i \in 1..n |-> 200 + i]

\* the type codes: every 16-bit code up to MaxCode, and two codes that need
\* more than 8 and more than 16 bits
BankArgs ==
  {a \in [layout : {"B16", "B32", "B32A"}, endianness : {Little, Big}, name : BankNames,
          code : (0..MaxCode) \cup {257, 65537}, len : 0..MaxPayload] :
     a.layout = "B16" => a.code < 65536}

BankBytes(a) ==
  CASE a.layout = "B16" -> bank_16(a.endianness, a.name, a.code, Payload(a.len))
    [] a.layout = "B32" -> bank_32(a.endianness, a.name, a.code, Payload(a.len))
    [] a.layout = "B32A" -> bank_32a(a.endianness, a.name, a.code, Payload(a.len))

\* the type code as the layout carries it: a u16, or a u32
CodeOf(a) == IF a.layout = "B16" THEN a.code ELSE U32FromNat(a.code)

\* DataType::try_from at the width of the layout
TypeOfCode(a) ==
  IF a.layout = "B16" THEN DataTypeTryFrom(CodeOf(a)) ELSE DataTypeTryFromU32(CodeOf(a))

BankInit ==
  /\ args \in BankArgs
  /\ bytes = BankBytes(args)
  /\ edit = NoEdit
  /\ out = <<>>

\* the bank parser of the layout, applied at the start of the buffer
BankDecode ==
  /\ out = <<>>
  /\ out' = <<[op |-> "bank",
               r |-> BankParser(args.layout, args.endianness, bytes, 0, Len(bytes))]>>
  /\ UNCHANGED <<args, bytes, edit>>

\* DataType::try_from(code), and DataType::size of the type it gives
TypeOf ==
  /\ out = <<>> /\ edit = NoEdit
  /\ out' = <<[op |-> "type", data_type |-> TypeOfCode(args),
               size |-> IF TypeOfCode(args) = NoType THEN <<>>
                        ELSE DataTypeSize(TypeOfCode(args))]>>
  /\ UNCHANGED <<args, bytes, edit>>

\* the bank view the parser returned, as the argument of required_padding
PaddingOfView(r) == [op |-> "padding", len |-> r.val.data.len, val |-> required_padding(r.val)]

\* bank.required_padding() of a bank that decoded
RequiredPadding ==
  /\ out = <<>> /\ edit = NoEdit
  /\ BankParser(args.layout, args.endianness, bytes, 0, Len(bytes)).ok
  /\ out' = <<PaddingOfView(BankParser(args.layout, args.endianness, bytes, 0, Len(bytes)))>>
  /\ UNCHANGED <<args, bytes, edit>>

BankNext == Push \/ Truncate \/ BankDecode \/ TypeOf \/ RequiredPadding

BankSpec == BankInit /\ [][BankNext]_vars

(***************************************************************************)
(* Properties.                                                             *)
(***************************************************************************)
Parsed == out # <<>>

R == out[1]

\* the 16-bit and 32-bit fields of the buffer at an offset, in the byte
\* order the decoder found
U16At(p) == u16(R.endianness, bytes, p, Len(bytes))

U32At(p) == u32(R.endianness, bytes, p, Len(bytes))

\* the decoder got as far as the events
ReachedEvents == Parsed /\ R.stop # ""

\* where the closing envelope of the file as built begins
ClosingAt == Len(FileOf(args)) - args.odb - 16

\* the one change made to the file is in one of its two run numbers
RunNumberEdited ==
  /\ edit.kind = "set"
  /\ edit.at \in (4..7) \cup ((ClosingAt + 4)..(ClosingAt + 7))

\* C1: a file that is valid but for its closing run number differing from
\* the opening one fails to decode with the error of the final run number,
\* and no FileView is returned; a FileView is returned only with the two
\* run numbers equal.
C1_RunNumberMismatch ==
  Parsed =>
    /\ R.ok => U32At(4).val = U32At(R.events_end + 4).val
    /\ RunNumberEdited =>
         /\ ~R.ok
         /\ R.label = "final run number"
         /\ R.val = NoFile
         /\ U32At(4).val # U32At(R.events_end + 4).val

\* C1 witness: the closing run number was changed from 1 to 0 and the
\* decoder reported the final run number
C1_Witness ==
  /\ Parsed /\ RunNumberEdited /\ edit.at >= ClosingAt
  /\ U32At(4).val = <<0, 1>> /\ U32At(ClosingAt + 4).val = <<0, 0>>
  /\ ~R.ok /\ R.label = "final run number"

\* C2: the first 16 bits, read little-endian, decide the byte order: 0x8000
\* is little, 0x0080 is big, and any other value fails with the error of the
\* begin-of-run id; exactly one of the three happens.
C2_Endianness ==
  (Parsed /\ Len(bytes) >= 2) =>
    LET v == bytes[1] + 256 * bytes[2]
    IN /\ v = BOR_ID => R.endianness = Little /\ R.label # "begin-of-run id"
       /\ v = BOR_ID_SWAPPED => R.endianness = Big /\ R.label # "begin-of-run id"
       /\ v \notin {BOR_ID, BOR_ID_SWAPPED} =>
            ~R.ok /\ R.label = "begin-of-run id" /\ R.endianness = NoEndianness
       /\ Cardinality({x \in {"little", "big", "fail"} :
             \/ x = "little" /\ R.endianness = Little
             \/ x = "big" /\ R.endianness = Big
             \/ x = "fail" /\ R.label = "begin-of-run id"}) = 1

\* C2 witness: a begin marker that is neither value was decoded
C2_Witness ==
  /\ Parsed /\ edit.kind = "set" /\ edit.at \in {0, 1}
  /\ bytes[1] + 256 * bytes[2] \notin {BOR_ID, BOR_ID_SWAPPED}
  /\ R.label = "begin-of-run id"

\* the length of a bank's header in each layout, and the padding that
\* brings a payload to a multiple of 8 bytes
HeaderLen(layout) == CASE layout = "B16" -> 8 [] layout = "B32" -> 12 [] layout = "B32A" -> 16

LayoutOfFlags(flags) ==
  CASE flags = <<0, 1>> -> "B16" [] flags = <<0, 17>> -> "B32" [] flags = <<0, 49>> -> "B32A"

PaddingOf(len) == (8 - (len % 8)) % 8

BankEnd(layout, bank) ==
  bank.at + HeaderLen(layout) + bank.data.len + PaddingOf(bank.data.len)

\* the banks, each with its padding, lie one after another from "from" and
\* end exactly at "to"
Tiles(banks, from, to, layout) ==
  IF banks = <<>> THEN from = to
  ELSE /\ banks[1].at = from
       /\ \A i \in 1..(Len(banks) - 1) : BankEnd(layout, banks[i]) = banks[i + 1].at
       /\ BankEnd(layout, banks[Len(banks)]) = to

\* the header fields of the event the decoder tried last, the one it
\* stopped at
AttemptEventSize == U32At(R.events_end + 12)

AttemptBanksSize == U32At(R.events_end + 16)

AttemptFlags == U32At(R.events_end + 20)

KnownFlags == {<<0, 1>>, <<0, 17>>, <<0, 49>>}

\* C3: in every event that decodes, the banks with their padding fill the
\* banks_size bytes the header declares exactly: no bank runs past the
\* region and no byte of it is left over.  An event with sound sizes and
\* known flags that does not decode fails at its banks.
C3_BanksFillRegion ==
  /\ Parsed =>
       \A i \in DOMAIN R.event_views :
         LET ev == R.event_views[i]
             banks_size == U32At(ev.at + 16).val
         IN /\ banks_size[1] = 0
            /\ ev.at + 24 + banks_size[2] <= Len(bytes)
            /\ Tiles(ev.bank_views, ev.at + 24, ev.at + 24 + banks_size[2],
                     LayoutOfFlags(U32At(ev.at + 20).val))
  /\ (/\ ReachedEvents
      /\ AttemptFlags.ok
      /\ U32GeEight(AttemptEventSize.val)
      /\ AttemptBanksSize.val = U32SubEight(AttemptEventSize.val)
      /\ AttemptFlags.val \in KnownFlags)
       => R.stop = "banks"

\* C3 witness: an event with a sound header was turned down at its banks
\* after the size of its bank was changed
C3_Witness ==
  /\ ReachedEvents /\ edit.kind = "set" /\ args.banks >= 1
  /\ R.stop = "banks" /\ ~R.ok
  /\ AttemptFlags.val \in KnownFlags
  /\ AttemptBanksSize.val = U32SubEight(AttemptEventSize.val)
  /\ \E i \in DOMAIN FileOf(args) : bytes[i] # FileOf(args)[i] /\ i - 1 >= R.events_end + 24

\* C4: the flags of an event select the layout of all its banks: 1 the
\* 16-bit layout, 17 the 32-bit one, 49 the aligned 32-bit one; an event
\* with any other flags value fails at its flags.
C4_FlagsSelectLayout ==
  /\ Parsed =>
       \A i \in DOMAIN R.event_views :
         LET ev == R.event_views[i]
             flags == U32At(ev.at + 20).val
         IN /\ flags \in KnownFlags
            /\ \A j \in DOMAIN ev.bank_views :
                 ev.bank_views[j].data.start - ev.bank_views[j].at
                   = (CASE flags = <<0, 1>> -> 8 [] flags = <<0, 17>> -> 12
                        [] flags = <<0, 49>> -> 16)
  /\ (/\ ReachedEvents
      /\ AttemptFlags.ok
      /\ U32GeEight(AttemptEventSize.val)
      /\ AttemptBanksSize.val = U32SubEight(AttemptEventSize.val)
      /\ AttemptFlags.val \notin KnownFlags)
       => R.stop = "flags"

\* C4 witness: an event whose flags were changed to an unknown value was
\* turned down at its flags
C4_Witness ==
  /\ ReachedEvents /\ edit.kind = "set"
  /\ edit.at \in (R.events_end + 20)..(R.events_end + 23)
  /\ AttemptFlags.ok /\ AttemptFlags.val \notin KnownFlags
  /\ R.stop = "flags"

\* a u32 below 8
U32BelowEight(v) == v[1] = 0 /\ v[2] < 8

\* C5: an event whose event_size is below 8 fails at its event_size,
\* whatever its banks_size, its flags and the bytes after it are; no event
\* that decodes has an event_size below 8.
C5_EventSizeBelowEight ==
  /\ (ReachedEvents /\ AttemptEventSize.ok /\ U32BelowEight(AttemptEventSize.val))
       => R.stop = "event_size"
  /\ Parsed =>
       \A i \in DOMAIN R.event_views : ~U32BelowEight(U32At(R.event_views[i].at + 12).val)

\* C5 witness: a whole event header (24 bytes) with an event_size below 8
\* was turned down at its event_size
C5_Witness ==
  /\ ReachedEvents /\ AttemptFlags.ok
  /\ U32BelowEight(AttemptEventSize.val)
  /\ edit.kind = "set" /\ edit.at \in (R.events_end + 12)..(R.events_end + 15)
  /\ R.stop = "event_size"

\* C6: an event whose event_size is at least 8 fails at its banks_size
\* unless banks_size = event_size - 8; every event that decodes has
\* event_size = banks_size + 8.
C6_EventAndBanksSizes ==
  /\ (/\ ReachedEvents /\ AttemptBanksSize.ok
      /\ ~U32BelowEight(AttemptEventSize.val)
      /\ AttemptBanksSize.val # U32SubEight(AttemptEventSize.val))
       => R.stop = "banks_size"
  /\ Parsed =>
       \A i \in DOMAIN R.event_views :
         LET event_size == U32At(R.event_views[i].at + 12).val
             banks_size == U32At(R.event_views[i].at + 16).val
         IN /\ event_size[1] = 0 /\ banks_size[1] = 0
            /\ event_size[2] = banks_size[2] + 8

\* C6 witness: an event whose banks_size was changed away from
\* event_size - 8 was turned down at its banks_size
C6_Witness ==
  /\ ReachedEvents /\ AttemptFlags.ok
  /\ edit.kind = "set" /\ edit.at \in (R.events_end + 16)..(R.events_end + 19)
  /\ ~U32BelowEight(AttemptEventSize.val)
  /\ R.stop = "banks_size"

\* where an event that decoded ends: its 24 header bytes, then banks_size
EventEnd(ev) == ev.at + 24 + U32At(ev.at + 16).val[2]

\* C7 as claimed: no event that was taken begins with the end-of-run marker
C7_StopsAtMarker ==
  Parsed => \A i \in DOMAIN R.event_views : U16At(R.event_views[i].at).val # EOR_ID

\* C7 as amended: the events are taken one after another from the end of
\* the initial metadata and the taking stops at the first position where no
\* event decodes, whatever the 16 bits there are; the file decodes only if
\* they are the end-of-run marker, and fails with the error of the
\* end-of-run id when they are not.
C7_EventsUntilFailure ==
  ReachedEvents =>
    LET evs == R.event_views
        first == 16 + U32At(12).val[2]
    IN /\ IF evs = <<>> THEN R.events_end = first
          ELSE /\ evs[1].at = first
               /\ \A i \in 1..(Len(evs) - 1) : EventEnd(evs[i]) = evs[i + 1].at
               /\ EventEnd(evs[Len(evs)]) = R.events_end
       /\ ~event_view(R.endianness, bytes, R.events_end, Len(bytes)).ok
       /\ R.ok => U16At(R.events_end).val = EOR_ID
       /\ (~U16At(R.events_end).ok \/ U16At(R.events_end).val # EOR_ID)
            => ~R.ok /\ R.label = "end-of-run id" /\ R.pos = R.events_end

\* C7 witness: a file decoded with an event whose id is the end-of-run
\* marker among its events
C7_Witness ==
  /\ Parsed /\ R.ok /\ Len(R.val.event_views) = MaxEvents
  /\ \E i \in DOMAIN R.val.event_views : R.val.event_views[i].id = EOR_ID

\* C8: a file decodes only with the magic 0x494D right after the begin
\* marker, the end-of-run marker 0x8001 right after the last event and the
\* magic again right after it, in the byte order found; a wrong magic fails
\* with the error of that magic and a wrong end marker with the error of the
\* end-of-run id.
C8_MagicAndEndMarker ==
  Parsed =>
    /\ R.ok =>
         /\ U16At(2).val = MAGIC
         /\ U16At(R.events_end).val = EOR_ID
         /\ U16At(R.events_end + 2).val = MAGIC
    /\ (R.endianness # NoEndianness /\ U16At(2).ok /\ U16At(2).val # MAGIC)
         => ~R.ok /\ R.label = "initial magic marker"
    /\ (ReachedEvents /\ U16At(R.events_end).ok /\ U16At(R.events_end).val # EOR_ID)
         => ~R.ok /\ R.label = "end-of-run id"
    /\ (/\ ReachedEvents /\ U16At(R.events_end).val = EOR_ID
        /\ U16At(R.events_end + 2).ok /\ U16At(R.events_end + 2).val # MAGIC)
         => ~R.ok /\ R.label = "final magic marker"

\* C8 witness: the magic after the end-of-run marker was changed and the
\* decoder reported the final magic
C8_Witness ==
  /\ ReachedEvents /\ edit.kind = "set"
  /\ edit.at \in {ClosingAt + 2, ClosingAt + 3}
  /\ U16At(R.events_end).val = EOR_ID
  /\ R.label = "final magic marker"

\* C9: a byte left in the buffer after the final metadata fails the decode
\* with the error of trailing bytes, at the offset of that byte; a FileView
\* is returned only with the whole buffer taken.
C9_TrailingBytes ==
  Parsed =>
    /\ R.ok =>
         /\ R.pos = Len(bytes)
         /\ R.val.final_odb.start + R.val.final_odb.len = Len(bytes)
    /\ edit.kind = "push" =>
         /\ ~R.ok /\ R.label = TrailingLabel /\ R.val = NoFile
         /\ R.pos = Len(bytes) - 1
    /\ R.label = TrailingLabel =>
         /\ ~R.ok
         /\ R.pos = R.events_end + 16 + U32At(R.events_end + 12).val[2]
         /\ R.pos < Len(bytes)

\* C9 witness: a byte was pushed after a valid file and the decoder
\* reported trailing bytes
C9_Witness == Parsed /\ edit.kind = "push" /\ ~R.ok /\ R.label = TrailingLabel

\* the file as built, less its last byte
LastByteCut == edit.kind = "truncate" /\ edit.at = Len(FileOf(args)) - 1

\* C10: a valid file with a final metadata that is not empty, less its
\* last byte, fails with the error of the final odb dump, the buffer being
\* too short for it; a FileView is returned only with a final metadata as
\* long as its length prefix declares.
C10_TruncatedFinalOdb ==
  Parsed =>
    /\ (LastByteCut /\ args.odb > 0) =>
         /\ ~R.ok /\ R.label = "final odb dump" /\ R.val = NoFile
         /\ R.pos = R.events_end + 16
         /\ U32At(R.events_end + 12).val[2] > Len(bytes) - R.pos
    /\ R.ok =>
         /\ U32At(R.events_end + 12).val = <<0, R.val.final_odb.len>>
         /\ R.val.final_odb.start = R.events_end + 16
         /\ R.val.final_odb.start + R.val.final_odb.len <= Len(bytes)

\* C10 witness: the last byte of a final metadata was cut and the decoder
\* reported the final odb dump
C10_Witness ==
  /\ Parsed /\ LastByteCut /\ args.odb > 0
  /\ ~R.ok /\ R.label = "final odb dump"

(***************************************************************************)
(* Properties of the bank parsers, under BankSpec.                         *)
(***************************************************************************)
BankDecoded == out # <<>> /\ out[1].op = "bank"

B == out[1].r

\* the bank was built from a recognized type code and a payload that is a
\* whole number of elements of the type
ValidBank(a) ==
  /\ TypeOfCode(a) # NoType
  /\ a.len % unwrap_or(DataTypeSize(TypeOfCode(a)), 1) = 0

\* the bytes of the buffer a view borrows as its payload
DataOf(bank) == SubSeq(bytes, bank.data.start + 1, bank.data.start + bank.data.len)

\* C11: a bank built in any of the three layouts and either byte order,
\* from a recognized type code and a payload that is a whole number of
\* elements (of any length for the types without a size), decodes; the view
\* has the 4 name bytes, the type of the code, and the payload bytes and
\* nothing else: the payload begins right after the header (8, 12 or 16
\* bytes, the reserved bytes included) and stops before the padding.
C11_BankRoundTrip ==
  (BankDecoded /\ edit.kind \in {"none", "push"} /\ ValidBank(args)) =>
    /\ B.ok
    /\ B.val.name = args.name
    /\ B.val.data_type = TypeOfCode(args)
    /\ B.val.data.start = HeaderLen(args.layout)
    /\ B.val.data.len = args.len
    /\ DataOf(B.val) = Payload(args.len)

\* C11 witness: a big-endian bank of the aligned 32-bit layout with one
\* f64 was decoded
C11_Witness ==
  /\ BankDecoded /\ edit = NoEdit /\ B.ok
  /\ args.layout = "B32A" /\ args.endianness = Big /\ args.code = 10
  /\ B.val.data_type = "F64" /\ B.val.data.len = 8

\* the types without a fixed size
Unsized == {"Str", "Array", "Struct"}

\* C12: a bank whose type has a fixed size and whose declared payload size
\* is not a multiple of it fails to decode, at its data; so the payload of
\* every view is a whole number of elements.  A bank of a type without a
\* size (string, array, struct) decodes with a payload of any length.
C12_PayloadDivisible ==
  BankDecoded =>
    /\ (B.ok /\ B.val.data_type \notin Unsized) =>
         /\ DataTypeSize(B.val.data_type) # <<>>
         /\ B.val.data.len % DataTypeSize(B.val.data_type)[1] = 0
    /\ (/\ edit.kind \in {"none", "push"}
        /\ TypeOfCode(args) \notin Unsized \cup {NoType}
        /\ args.len % DataTypeSize(TypeOfCode(args))[1] # 0)
         => ~B.ok /\ B.stage = "data" /\ B.val = NoBank
    /\ (edit.kind \in {"none", "push"} /\ TypeOfCode(args) \in Unsized)
         => B.ok /\ B.val.data.len = args.len

\* C12 witness: a bank of 16-bit integers with a payload of 3 bytes was
\* turned down at its data
C12_Witness ==
  /\ BankDecoded /\ edit = NoEdit
  /\ args.code = 4 /\ args.len = 3
  /\ ~B.ok /\ B.stage = "data"

Typed == out # <<>> /\ out[1].op = "type"

\* the element types
DataTypes == {"U8", "I8", "U16", "I16", "U32", "I32", "Bool", "F32", "F64",
              "Str", "Array", "Struct", "I64", "U64"}

\* C13: the conversion of a type code gives an element type for the codes
\* 1 to 18 and fails for every other code, 0 and the codes above 18 at
\* either width, with no type given in its place; a bank that carries such
\* a code fails to decode, at its data type.
C13_UnknownTypeCode ==
  /\ Typed =>
       /\ out[1].data_type \in DataTypes \cup {NoType}
       /\ out[1].data_type = NoType <=> args.code \notin 1..18
  /\ (BankDecoded /\ edit.kind \in {"none", "push"} /\ args.code \notin 1..18)
       => ~B.ok /\ B.stage = "data_type" /\ B.val = NoBank
  /\ (BankDecoded /\ B.ok) => B.val.data_type \in DataTypes

\* C13 witness: a bank of the 32-bit layout with the code 65537, whose low
\* 16 bits are the code 1, was turned down at its data type
C13_Witness ==
  /\ BankDecoded /\ edit = NoEdit
  /\ args.layout = "B32" /\ args.code = 65537
  /\ ~B.ok /\ B.stage = "data_type"

is_alphanum(c) == c \in (48..57) \cup (65..90) \cup (97..122)

\* C15: a bank with a name byte that is no ASCII letter and no digit fails
\* to decode, at its name, so the name of every view is 4 ASCII letters or
\* digits.
C15_NameAlphanumeric ==
  BankDecoded =>
    /\ B.ok => \A i \in 1..4 : is_alphanum(B.val.name[i])
    /\ (edit.kind \in {"none", "push"} /\ \E i \in 1..4 : ~is_alphanum(args.name[i]))
         => ~B.ok /\ B.stage = "name"

Padded == out # <<>> /\ out[1].op = "padding"

\* C18: the required padding of a bank view is a number from 0 to 7 that
\* brings the length of the payload to a multiple of 8; it is 0 when the
\* length is a multiple of 8 already, 0 included.  It is the number of
\* bytes the bank parser takes after the payload.
C18_RequiredPadding ==
  Padded =>
    /\ out[1].len = args.len
    /\ out[1].val \in 0..7
    /\ (out[1].len + out[1].val) % 8 = 0
    /\ out[1].len % 8 = 0 => out[1].val = 0
    /\ out[1].val = next_multiple_of(out[1].len, 8) - out[1].len

\* C18 witness: the padding of a view with a payload of 8 bytes was asked
\* for and is 0
C18_Witness == Padded /\ out[1].len = 8 /\ out[1].val = 0

(***************************************************************************)
(* Properties of the file decoder (continued), under Spec.                 *)
(***************************************************************************)
\* where the banks of the file as built lie: bank j of event k, both
\* counted from 0
BankLenOf(a) == HeaderLen(LayoutOfFlags(<<0, a.flags>>)) + next_multiple_of(a.data, 8)

EventLenOf(a) == 24 + a.banks * BankLenOf(a)

BankAt(a, k, j) == 16 + a.odb + k * EventLenOf(a) + 24 + j * BankLenOf(a)

BanksOf(a) == {BankAt(a, k, j) : k \in 0..(a.events - 1), j \in 0..(a.banks - 1)}

\* the offsets of the reserved bytes of the aligned 32-bit headers, and of
\* the padding bytes after the payloads
ReservedOffsets(a) ==
  IF a.flags = 49 THEN UNION {(at + 12)..(at + 15) : at \in BanksOf(a)} ELSE {}

PaddingOffsets(a) ==
  UNION {(at + BankLenOf(a) - PaddingOf(a.data))..(at + BankLenOf(a) - 1) : at \in BanksOf(a)}

\* the payload bytes of every bank of a decoded file, event by event
PayloadsOf(b, file) ==
  [i \in DOMAIN file.event_views |->
     [j \in DOMAIN file.event_views[i].bank_views |->
        LET data == file.event_views[i].bank_views[j].data
        IN SubSeq(b, data.start + 1, data.start + data.len)]]

\* C16: a valid file in which a reserved byte of an aligned 32-bit header,
\* or a padding byte after a payload, is given any other value decodes as
\* the file itself does: the same run number, timestamps and metadata, the
\* same events with the same scalar fields, and the same banks with the
\* same names, types and payloads.
C16_ReservedAndPaddingIgnored ==
  (/\ Parsed /\ edit.kind = "set"
   /\ edit.at \in ReservedOffsets(args) \cup PaddingOffsets(args)) =>
    /\ R.ok
    /\ R = try_from_bytes(FileOf(args))
    /\ PayloadsOf(bytes, R.val) = PayloadsOf(FileOf(args), R.val)

\* C16 witness: a reserved byte of an aligned 32-bit header was given a
\* value that is not zero and the file was decoded
C16_Witness ==
  /\ Parsed /\ edit.kind = "set" /\ edit.at \in ReservedOffsets(args)
  /\ bytes[edit.at + 1] # 0 /\ FileOf(args)[edit.at + 1] = 0
  /\ R.ok /\ R.val.event_views # <<>>

EventsEdited ==
  /\ edit.kind = "set"
  /\ edit.at \in (16 + args.odb)..(ClosingAt - 1)

\* the failure of the event parser at the position the events stopped at:
\* the field it failed at and the position it had reached
AttemptFailure == event_view(R.endianness, bytes, R.events_end, Len(bytes))

\* C20: when a file fails to decode because of a defect inside an event
\* header or a bank, the error returned is the failure of the event parser
\* itself, the deepest one, and its offset is the position that failure
\* occurred at.
C20_DeepestFailureReported ==
  (Parsed /\ ~R.ok /\ ReachedEvents /\ EventsEdited) =>
    /\ R.label # "end-of-run id"
    /\ R.pos = AttemptFailure.pos

\* the event of the file as built that holds the one changed byte, counted
\* from 0, where it begins, and where the bank that holds the byte begins
\* when the byte is past the header of the event
EditedEvent == (edit.at - (16 + args.odb)) \div EventLenOf(args)

EditedEventAt == 16 + args.odb + EditedEvent * EventLenOf(args)

EditedInBanks == EventsEdited /\ edit.at >= EditedEventAt + 24

EditedBankAt ==
  EditedEventAt + 24 + ((edit.at - EditedEventAt - 24) \div BankLenOf(args)) * BankLenOf(args)

\* the bank parser and the event parser where the changed byte lies
EditedBank ==
  BankParser(LayoutOfFlags(<<0, args.flags>>), args.endianness, bytes, EditedBankAt,
             EditedEventAt + EventLenOf(args))

EditedEventView == event_view(args.endianness, bytes, EditedEventAt, Len(bytes))

\* C22: when a bank of an event fails to decode the event fails to decode
\* and returns no view, and when an event of a file fails to decode the
\* file fails to decode and returns no view: neither an event with the
\* banks before the failing one nor a file with the events before the
\* failing one is returned.
C22_FailFast ==
  (Parsed /\ EventsEdited) =>
    /\ (EditedInBanks /\ ~EditedBank.ok) => ~EditedEventView.ok
    /\ ~EditedEventView.ok =>
         /\ EditedEventView.val = NoEvent
         /\ ~R.ok /\ R.val = NoFile
         /\ R.events_end = EditedEventAt

\* C22 witness: the last bank of the last event of a file of two events no
\* longer decodes, the banks and the event before it do, and the file
\* fails to decode
C22_Witness ==
  /\ Parsed /\ EventsEdited /\ EditedInBanks
  /\ args.events = 2 /\ EditedEvent = 1
  /\ EditedBankAt > EditedEventAt + 24
  /\ ~EditedBank.ok /\ ~EditedEventView.ok
  /\ Len(R.event_views) = 1 /\ ~R.ok

\* the offsets of the bytes of the initial and of the final metadata blob
\* of the file as built
InitialOdbOffsets(a) == 16..(16 + a.odb - 1)

FinalOdbOffsets(a) == (Len(FileOf(a)) - a.odb)..(Len(FileOf(a)) - 1)

BANK_PADDING == 8

EVENT_HEADER_LENGTH == 2 + 2 + 4 + 4 + 4 + 4 + 4

\* BankSlice::HEADER_LENGTH: name, type, size and reserved bytes
HEADER_LENGTH(layout) ==
  CASE layout = "B16" -> 4 + 2 + 2 + 0
    [] layout = "B32" -> 4 + 4 + 4 + 0
    [] layout = "B32A" -> 4 + 4 + 4 + 4

\* the size field of the bank header that begins at the start of s, as a
\* u32 (a u16 widened for the 16-bit layout)
data_size_field(layout, e, s) ==
  IF layout = "B16" THEN <<0, u16(e, s, 6, Len(s)).val>> ELSE u32(e, s, 8, Len(s)).val

\* the type field of the bank header that begins at the start of s
data_type_field(layout, e, s) ==
  IF layout = "B16" THEN DataTypeTryFrom(u16(e, s, 4, Len(s)).val)
  ELSE DataTypeTryFromU32(u32(e, s, 4, Len(s)).val)

\* room < size + n, for a u32 size
Exceeds(size, n, room) == size[1] > 0 \/ size[2] + n > room

are_all_ascii_alphanumeric(slice) == \A i \in DOMAIN slice : is_alphanum(slice[i])

\* "Ok", or the TryBankViewFromSliceError of a slice that is no bank
error_in_bank_view(layout, e, s) ==
  IF Len(s) < HEADER_LENGTH(layout) THEN "SizeMismatch"
  ELSE IF <<0, Len(s) - HEADER_LENGTH(layout)>> # data_size_field(layout, e, s) THEN "SizeMismatch"
  ELSE IF data_type_field(layout, e, s) = NoType THEN "UnknownDataType"
  ELSE IF data_size_field(layout, e, s)[2] % unwrap_or(DataTypeSize(data_type_field(layout, e, s)), 1) # 0
       THEN "IncompleteData"
  ELSE IF ~are_all_ascii_alphanumeric(SubSeq(s, 1, 4)) THEN "NonAsciiName"
  ELSE "Ok"

\* the bytes that bring a payload of len bytes to a multiple of BANK_PADDING
padding(len) ==
  LET remainder == len % BANK_PADDING
  IN IF remainder = 0 THEN 0 ELSE BANK_PADDING - remainder

\* what a call of next() returns and where it leaves the cursor.  The item
\* of these iterators is a view that borrows the range [at, at + len) of
\* the slice.
NoItem == [at |-> 0, len |-> 0]

\* variant: a call that yields nothing steps over one byte
IterNoneSkipByte(curr) == [kind |-> "None", curr |-> curr + 1, item |-> NoItem]

IterNone(curr) == [kind |-> "None", curr |-> curr, item |-> NoItem]

IterSome(curr, item) == [kind |-> "Some", curr |-> curr, item |-> item]

IterPanic(curr) == [kind |-> "Panic", curr |-> curr, item |-> NoItem]

\* variant: the padding is neither required to be there nor stepped over
bank_views_advance_no_padding(layout, s, curr, size) ==
  IterSome(curr + HEADER_LENGTH(layout) + size, [at |-> curr, len |-> HEADER_LENGTH(layout) + size])

\* variant: the padding is stepped over whether it is there or not
bank_views_advance_unchecked(layout, s, curr, size) ==
  IterSome(curr + HEADER_LENGTH(layout) + size + padding(size),
           [at |-> curr, len |-> HEADER_LENGTH(layout) + size])

\* the end of next() once the bank at the cursor is known to be a bank of
\* size bytes
bank_views_advance(layout, s, curr, size) ==
  IF HEADER_LENGTH(layout) + size + padding(size) > Len(s) - curr THEN IterNone(curr)
  ELSE IterSome(curr + HEADER_LENGTH(layout) + size + padding(size),
                [at |-> curr, len |-> HEADER_LENGTH(layout) + size])

\* Bank16Views::next, Bank32Views::next and Bank32AViews::next
bank_views_next(layout, e, s, curr) ==
  IF Len(s) - curr < HEADER_LENGTH(layout) THEN IterNone(curr)
  ELSE IF Exceeds(data_size_field(layout, e, SubSeq(s, curr + 1, Len(s))), HEADER_LENGTH(layout),
                  Len(s) - curr)
       THEN IterNone(curr)
  ELSE IF error_in_bank_view(layout, e,
             SubSeq(s, curr + 1, curr + HEADER_LENGTH(layout)
                      + data_size_field(layout, e, SubSeq(s, curr + 1, Len(s)))[2])) # "Ok"
       THEN IterNone(curr)
  ELSE bank_views_advance(layout, s, curr, data_size_field(layout, e, SubSeq(s, curr + 1, Len(s)))[2])

RECURSIVE bank_views_remainder(_, _, _, _)

\* for _ in all_banks.by_ref() {}: the cursor once next() has returned None
bank_views_remainder(layout, e, s, curr) ==
  IF bank_views_next(layout, e, s, curr).kind = "Some"
  THEN bank_views_remainder(layout, e, s, bank_views_next(layout, e, s, curr).curr)
  ELSE curr

\* the three u32 fields that end the header of the event that begins at the
\* start of s
event_size_field(e, s) == u32(e, s, 12, Len(s)).val

all_banks_size_field(e, s) == u32(e, s, 16, Len(s)).val

flags_field(e, s) == u32(e, s, 20, Len(s)).val

\* "Ok", or the TryEventViewFromSliceError of a slice that is no event.
\* event_size - 4 - 4 is computed on usize before event_size is compared
\* with anything: below 8 the subtraction overflows, which panics in a
\* build with overflow checks ("Panic") and wraps otherwise, to a value no
\* u32 equals.
error_in_event_view(e, s, overflow_checks) ==
  IF Len(s) < EVENT_HEADER_LENGTH THEN "SizeMismatch"
  ELSE IF ~U32GeEight(event_size_field(e, s))
       THEN (IF overflow_checks THEN "Panic" ELSE "EventAndBanksMismatch")
  ELSE IF U32SubEight(event_size_field(e, s)) # all_banks_size_field(e, s)
       THEN "EventAndBanksMismatch"
  ELSE IF <<0, Len(s) - EVENT_HEADER_LENGTH>> # all_banks_size_field(e, s) THEN "SizeMismatch"
  ELSE IF FlagsLayout(flags_field(e, s)) = "fail" THEN "UnknownFlag"
  ELSE IF bank_views_remainder(FlagsLayout(flags_field(e, s)), e,
                               SubSeq(s, EVENT_HEADER_LENGTH + 1, Len(s)), 0)
            # Len(s) - EVENT_HEADER_LENGTH
       THEN "BadBank"
  ELSE "Ok"

\* the end of EventViews::next, given what EventView::try_from_le_bytes or
\* try_from_be_bytes returned for the size bytes after the header
event_views_event(r, curr, size) ==
  IF r = "Panic" THEN IterPanic(curr)
  ELSE IF r = "Ok"
       THEN IterSome(curr + EVENT_HEADER_LENGTH + size,
                     [at |-> curr, len |-> EVENT_HEADER_LENGTH + size])
  ELSE IterNone(curr)

\* EventViews::next
event_views_next(e, s, curr, overflow_checks) ==
  IF Len(s) - curr < EVENT_HEADER_LENGTH THEN IterNone(curr)
  ELSE IF Exceeds(all_banks_size_field(e, SubSeq(s, curr + 1, Len(s))), EVENT_HEADER_LENGTH,
                  Len(s) - curr)
       THEN IterNone(curr)
  ELSE event_views_event(
         error_in_event_view(e, SubSeq(s, curr + 1, curr + EVENT_HEADER_LENGTH
                                + all_banks_size_field(e, SubSeq(s, curr + 1, Len(s)))[2]),
                             overflow_checks),
         curr, all_banks_size_field(e, SubSeq(s, curr + 1, Len(s)))[2])

(***************************************************************************)
(* One iterator over a slice.  The slice is the banks of an event, or the  *)
(* events of a file followed by its closing envelope, as the encoders      *)
(* build them; it may be changed once before the iterator is made.  "out"  *)
(* holds the iterator: its cursor, what its last call of next() returned,  *)
(* the number of calls and the items yielded so far.  overflow_checks is   *)
(* the build: with or without checks of integer overflow.                  *)
(***************************************************************************)
MaxCalls == 4

ReadArgs ==
  {a \in [views : {"Banks", "Events"}, overflow_checks : BOOLEAN, file : Args] :
     /\ a.file.odb = 0
     /\ a.views = "Banks" => a.file.events = 1 /\ a.overflow_checks}

ReadBytes(a) ==
  IF a.views = "Banks" THEN Repeat(BankOf(a.file), a.file.banks)
  ELSE SubSeq(FileOf(a.file), 17, Len(FileOf(a.file)))

\* next() of the iterator the arguments select, with the cursor at curr
ReadNext(a, s, curr) ==
  IF a.views = "Banks"
  THEN bank_views_next(FlagsLayout(U32FromNat(a.file.flags)), a.file.endianness, s, curr)
  ELSE event_views_next(a.file.endianness, s, curr, a.overflow_checks)

\* variant: a new iterator begins one past the start
NewIterPastStart == [curr |-> 1, last |-> "New", calls |-> 0, yielded |-> <<>>]

\* an iterator as from_le_bytes, from_be_bytes or into_iter makes it
NewIter == [curr |-> 0, last |-> "New", calls |-> 0, yielded |-> <<>>]

\* the iterator after a call of next() that returned r
IterAfter(it, r) ==
  [curr |-> r.curr, last |-> r.kind, calls |-> it.calls + 1,
   yielded |-> IF r.kind = "Some" THEN Append(it.yielded, r.item) ELSE it.yielded]

ReadInit ==
  /\ args \in ReadArgs
  /\ bytes = ReadBytes(args)
  /\ edit = NoEdit
  /\ out = <<>>

\* Bank16Views::from_le_bytes(&bytes) and the like: the cursor at 0
FromBytes ==
  /\ out = <<>>
  /\ out' = <<NewIter>>
  /\ UNCHANGED <<args, bytes, edit>>

\* iter.next(); a panic ends the thread that called it
IterNext ==
  /\ out # <<>> /\ out[1].last # "Panic" /\ out[1].calls < MaxCalls
  /\ out' = <<IterAfter(out[1], ReadNext(args, bytes, out[1].curr))>>
  /\ UNCHANGED <<args, bytes, edit>>

ReadNextAction == SetByte \/ Push \/ Truncate \/ FromBytes \/ IterNext

ReadSpec == ReadInit /\ [][ReadNextAction]_vars

(***************************************************************************)
(* Properties of the readers.                                              *)
(***************************************************************************)
Iterating == out # <<>>

It == out[1]

\* C21: every decode entry point returns a view or an error for every
\* buffer: none panics, indexes out of bounds or overflows in a size
\* computation.  Here: no call of next(), and so no EventView::try_from
\* under it, ends in a panic.
C21_NoPanic == Iterating => It.last # "Panic"

\* the iterator is a cursor iterator over banks, and the layout of its banks
BankViews == Iterating /\ args.views = "Banks"

LayoutOf == FlagsLayout(U32FromNat(args.file.flags))

\* C27: a call of next() on a cursor iterator over banks yields the bank at
\* the cursor exactly when its header, the payload its header declares and
\* the padding that brings the payload to a multiple of 8 bytes all lie in
\* the bytes from the cursor on and the header and payload validate as a
\* bank; the cursor then moves by header + size + padding.  In every other
\* case the call returns None and leaves the cursor where it was.
C27_BankViewsNext ==
  [][(BankViews /\ out' # out) =>
       LET curr == It.curr
           room == Len(bytes) - curr
           header == HeaderLen(LayoutOf)
           size == data_size_field(LayoutOf, args.file.endianness, SubSeq(bytes, curr + 1, Len(bytes)))
           whole == header + size[2] + ((8 - (size[2] % 8)) % 8)
           Within == header <= room /\ size[1] = 0 /\ whole <= room
           Validates ==
             error_in_bank_view(LayoutOf, args.file.endianness,
                                SubSeq(bytes, curr + 1, curr + header + size[2])) = "Ok"
       IN IF Within /\ Validates
          THEN /\ out'[1].last = "Some"
               /\ out'[1].curr = curr + whole
               /\ out'[1].yielded = Append(It.yielded, [at |-> curr, len |-> header + size[2]])
          ELSE /\ out'[1].last = "None"
               /\ out'[1].curr = curr
               /\ out'[1].yielded = It.yielded]_vars

\* C27 witness: the second of two banks lost the last byte of its padding;
\* the first was yielded, and the call at the second returned None
C27_Witness ==
  /\ BankViews /\ args.file.banks = 2 /\ args.file.data = 1
  /\ edit.kind = "truncate" /\ edit.at = 2 * BankLenOf(args.file) - 1
  /\ It.calls = 2 /\ It.last = "None"
  /\ It.yielded = <<[at |-> 0, len |-> BankLenOf(args.file) - 7]>>
  /\ It.curr = BankLenOf(args.file)

\* C28: the cursor of a cursor iterator, over banks or over events, begins
\* within 0..slice.len(), stays there after every call of next(), and no
\* call moves it back: remainder() is always a suffix of the slice.
C28_CursorInSlice ==
  [][out' # <<>> =>
       /\ out'[1].curr \in 0..Len(bytes')
       /\ Iterating => out'[1].curr >= It.curr]_vars

\* C28 witness: an iterator over the events of a file that gained a byte
\* yielded both events and then stopped, its cursor 17 bytes from the end
C28_Witness ==
  /\ Iterating /\ args.views = "Events" /\ args.file.events = 2
  /\ edit.kind = "push"
  /\ It.calls = 3 /\ It.last = "None" /\ Len(It.yielded) = 2
  /\ It.curr = 2 * EventLenOf(args.file) /\ It.curr = Len(bytes) - 17

\* C29: once a call of next() has returned None, every later call returns
\* None, yields nothing and leaves the cursor where it was, so that an item
\* that lies after an invalid one is never yielded.
C29_NoneIsFinal ==
  [][(Iterating /\ It.last = "None" /\ out' # out) =>
       /\ out'[1].last = "None"
       /\ out'[1].curr = It.curr
       /\ out'[1].yielded = It.yielded]_vars

\* C29 witness: the first of two banks was given a name that is not
\* alphanumeric; the second is a bank that next() would yield from where it
\* begins, and three calls have yielded nothing, the cursor still at 0
C29_Witness ==
  /\ BankViews /\ args.file.banks = 2
  /\ edit.kind = "set" /\ edit.at = 0
  /\ bank_views_next(LayoutOf, args.file.endianness, bytes, BankLenOf(args.file)).kind = "Some"
  /\ It.calls = 3 /\ It.last = "None" /\ It.yielded = <<>> /\ It.curr = 0

(***************************************************************************)
(* Traversals.  A FileView or an EventView is traversed by iterators made  *)
(* from it: a std::slice::Iter over the children it decoded (lib.rs), or   *)
(* a cursor iterator made anew over the slice it borrows (src/src/read).   *)
(* The parent is a file the encoders build, or the first event of it.      *)
(* "out" holds the iterators made so far, each as in ReadSpec, and any of  *)
(* them may be advanced next: the interleavings of the threads that hold   *)
(* them.                                                                   *)
(***************************************************************************)
MaxIters == 2

TraverseArgs ==
  {a \in [reader : {"parse", "read"}, parent : {"File", "Event"}, file : Args] :
     a.parent = "Event" => a.file.events >= 1}

\* std::slice::Iter::next over the children a view holds
slice_iter_next(children, curr) ==
  IF curr < Len(children) THEN IterSome(curr + 1, children[curr + 1]) ELSE IterNone(curr)

\* &FileView::into_iter of the older reader: the slice after the initial
\* metadata
events_slice(e, b) == SubSeq(b, 16 + u32(e, b, 12, Len(b)).val[2] + 1, Len(b))

\* EventView::all_banks_slice of the first event the older reader yields
all_banks_slice(e, b) ==
  SubSeq(events_slice(e, b), EVENT_HEADER_LENGTH + 1,
         event_views_next(e, events_slice(e, b), 0, TRUE).item.len)

\* next() of an iterator made from the parent, with its cursor at curr
TraverseStep(a, b, curr) ==
  CASE a.reader = "parse" /\ a.parent = "File" ->
         slice_iter_next(try_from_bytes(b).val.event_views, curr)
    [] a.reader = "parse" /\ a.parent = "Event" ->
         slice_iter_next(try_from_bytes(b).val.event_views[1].bank_views, curr)
    [] a.reader = "read" /\ a.parent = "File" ->
         event_views_next(a.file.endianness, events_slice(a.file.endianness, b), curr, TRUE)
    [] a.reader = "read" /\ a.parent = "Event" ->
         bank_views_next(FlagsLayout(flags_field(a.file.endianness,
                                                 events_slice(a.file.endianness, b))),
                         a.file.endianness, all_banks_slice(a.file.endianness, b), curr)

\* variant: the cursor is kept in one place for all the iterators
CursorShared(its, i) == its[1].curr

\* the cursor an iterator advances: its own field
Cursor(its, i) == its[i].curr

TraverseInit ==
  /\ args \in TraverseArgs
  /\ bytes = FileOf(args.file)
  /\ edit = NoEdit
  /\ out = <<>>

\* (&view).into_iter(): one more iterator, at the first child
IntoIter ==
  /\ Len(out) < MaxIters
  /\ out' = Append(out, NewIter)
  /\ UNCHANGED <<args, bytes, edit>>

\* next() on one of the iterators
Advance ==
  /\ \E i \in DOMAIN out :
       /\ out[i].calls < MaxCalls
       /\ out' = [out EXCEPT ![i] = IterAfter(out[i], TraverseStep(args, bytes, Cursor(out, i)))]
  /\ UNCHANGED <<args, bytes, edit>>

TraverseNext == IntoIter \/ Advance

TraverseSpec == TraverseInit /\ [][TraverseNext]_vars

(***************************************************************************)
(* Properties of the traversals, under TraverseSpec.                       *)
(***************************************************************************)
\* the children of the parent as the file was built: how many, and the
\* offset in the file at which child k begins, counted from 0
NChildren(a) == IF a.parent = "File" THEN a.file.events ELSE a.file.banks

ChildAt(a, k) ==
  IF a.parent = "File" THEN 16 + a.file.odb + k * EventLenOf(a.file) ELSE BankAt(a.file, 0, k)

\* the offset in the file of a child an iterator yielded
ItemAt(a, item) ==
  CASE a.reader = "parse" -> item.at
    [] a.reader = "read" /\ a.parent = "File" -> 16 + a.file.odb + item.at
    [] a.reader = "read" /\ a.parent = "Event" -> 16 + a.file.odb + 24 + item.at

\* C23: every traversal of a FileView over its events, or of an EventView
\* over its banks, is finite and yields the children in the order of the
\* wire: after more calls of next() than there are children the traversal
\* has ended, what was yielded by then is every child, and the k-th item
\* is the k-th child of the file.  A traversal started again from the same
\* parent, whether the earlier ones have ended or not, yields the same
\* children with the same fields.
C23_Traversals ==
  \A i \in DOMAIN out :
    /\ out[i].last # "Panic"
    /\ Len(out[i].yielded) <= NChildren(args)
    /\ \A k \in DOMAIN out[i].yielded : ItemAt(args, out[i].yielded[k]) = ChildAt(args, k - 1)
    /\ out[i].last = "None" => Len(out[i].yielded) = NChildren(args)
    /\ out[i].calls > NChildren(args) => out[i].last = "None"
    /\ \A j \in DOMAIN out :
         \A k \in DOMAIN out[i].yielded \cap DOMAIN out[j].yielded :
           out[i].yielded[k] = out[j].yielded[k]

\* C23 witness: a first traversal of two children has ended and a second
\* one, started from the same parent, has yielded the first child
C23_Witness ==
  /\ Len(out) = 2 /\ NChildren(args) = 2
  /\ out[1].last = "None" /\ Len(out[1].yielded) = 2
  /\ out[2].last = "Some" /\ Len(out[2].yielded) = 1

RECURSIVE Alone(_, _, _, _)

\* the items an iterator yields when it alone is advanced, n times at most,
\* from the cursor curr
Alone(a, b, curr, n) ==
  IF n = 0 \/ TraverseStep(a, b, curr).kind # "Some" THEN <<>>
  ELSE <<TraverseStep(a, b, curr).item>> \o Alone(a, b, TraverseStep(a, b, curr).curr, n - 1)

UncheckedFail(label, pos) == [ok |-> FALSE, pos |-> pos, label |-> label, val |-> <<0, 0>>]

\* variant: the magic marker is verified on the way
run_number_unchecked_magic(b) ==
  LET en == endianness(b, 0, Len(b))
      magic == u16(en.val, b, 2, Len(b))
      n == u32(en.val, b, 4, Len(b))
  IN IF ~en.ok THEN UncheckedFail("begin-of-run id", en.pos)
     ELSE IF ~magic.ok \/ ~VerifyMagic(magic.val) THEN UncheckedFail("magic marker", 2)
     ELSE IF ~n.ok THEN UncheckedFail("run number", 4)
     ELSE [ok |-> TRUE, pos |-> Len(b), label |-> "", val |-> n.val]

\* run_number_unchecked: the byte order, take(2), u32, rest; then eof
run_number_unchecked(b) ==
  LET en == endianness(b, 0, Len(b))
      n == u32(en.val, b, 4, Len(b))
  IN IF ~en.ok THEN UncheckedFail("begin-of-run id", en.pos)
     ELSE IF ~(2 + 2 <= Len(b)) THEN UncheckedFail("magic marker", 2)
     ELSE IF ~n.ok THEN UncheckedFail("run number", 4)
     ELSE [ok |-> TRUE, pos |-> Len(b), label |-> "", val |-> n.val]

\* variant: take(2) as in run_number_unchecked, so the field read is the
\* run number
initial_timestamp_unchecked_take_two(b) ==
  LET en == endianness(b, 0, Len(b))
      t == u32(en.val, b, 4, Len(b))
  IN IF ~en.ok THEN UncheckedFail("begin-of-run id", en.pos)
     ELSE IF ~(2 + 2 <= Len(b)) THEN UncheckedFail("magic marker and run number", 2)
     ELSE IF ~t.ok THEN UncheckedFail("initial timestamp", 4)
     ELSE [ok |-> TRUE, pos |-> Len(b), label |-> "", val |-> t.val]

\* initial_timestamp_unchecked: the byte order, take(6), u32, rest; then eof
initial_timestamp_unchecked(b) ==
  LET en == endianness(b, 0, Len(b))
      t == u32(en.val, b, 8, Len(b))
  IN IF ~en.ok THEN UncheckedFail("begin-of-run id", en.pos)
     ELSE IF ~(2 + 6 <= Len(b)) THEN UncheckedFail("magic marker and run number", 2)
     ELSE IF ~t.ok THEN UncheckedFail("initial timestamp", 8)
     ELSE [ok |-> TRUE, pos |-> Len(b), label |-> "", val |-> t.val]

\* midasio::run_number_unchecked(&bytes)
RunNumberUnchecked ==
  /\ out = <<>>
  /\ out' = <<[op |-> "run_number", at |-> 4, r |-> run_number_unchecked(bytes)]>>
  /\ UNCHANGED <<args, bytes, edit>>

\* midasio::initial_timestamp_unchecked(&bytes)
InitialTimestampUnchecked ==
  /\ out = <<>>
  /\ out' = <<[op |-> "initial_timestamp", at |-> 8, r |-> initial_timestamp_unchecked(bytes)]>>
  /\ UNCHANGED <<args, bytes, edit>>

UncheckedNext == SetByte \/ Push \/ Truncate \/ RunNumberUnchecked \/ InitialTimestampUnchecked

UncheckedSpec == Init /\ [][UncheckedNext]_vars

(***************************************************************************)
(* Properties of the two accessors, under UncheckedSpec.                   *)
(***************************************************************************)
\* C25: run_number_unchecked returns Ok exactly when the buffer begins with
\* the begin marker in one of the two byte orders and is at least 8 bytes
\* long, and initial_timestamp_unchecked exactly when it does and is at
\* least 12 bytes long; the value is the 32-bit field at offset 4, or 8,
\* read in the byte order of the marker, whatever the magic and whatever
\* follows the field.  In every other case an error is returned.
C25_Unchecked ==
  out # <<>> =>
    LET at == out[1].at
        little == Len(bytes) >= 2 /\ bytes[1] = 0 /\ bytes[2] = 128
        big == Len(bytes) >= 2 /\ bytes[1] = 128 /\ bytes[2] = 0
    IN /\ out[1].r.ok <=> ((little \/ big) /\ Len(bytes) >= at + 4)
       /\ (out[1].r.ok /\ little) =>
            out[1].r.val = <<bytes[at + 3] + 256 * bytes[at + 4],
                             bytes[at + 1] + 256 * bytes[at + 2]>>
       /\ (out[1].r.ok /\ big) =>
            out[1].r.val = <<256 * bytes[at + 1] + bytes[at + 2],
                             256 * bytes[at + 3] + bytes[at + 4]>>

\* C25 witness: the timestamp was read from a big-endian buffer cut to 12
\* bytes
C25_Witness ==
  /\ out # <<>> /\ out[1].r.ok
  /\ out[1].op = "initial_timestamp" /\ Len(bytes) = 12 /\ bytes[1] = 128
  /\ out[1].r.val = <<0, 2>>

\* C30: on every buffer that FileView::try_from_bytes decodes,
\* run_number_unchecked returns Ok with the run_number() of the FileView
\* and initial_timestamp_unchecked returns Ok with its initial_timestamp().
C30_UncheckedAgrees ==
  (out # <<>> /\ try_from_bytes(bytes).ok) =>
    /\ out[1].r.ok
    /\ out[1].op = "run_number" => out[1].r.val = try_from_bytes(bytes).val.run_number
    /\ out[1].op = "initial_timestamp" =>
         out[1].r.val = try_from_bytes(bytes).val.initial_timestamp

\* C30 witness: the timestamp was read from a file one byte of whose
\* initial timestamp was changed, and the file decodes
C30_Witness ==
  /\ out # <<>> /\ out[1].op = "initial_timestamp"
  /\ edit.kind = "set" /\ edit.at \in 8..11
  /\ try_from_bytes(bytes).ok
  /\ out[1].r.val # <<0, 2>>

====
